---------------------------- MODULE Spec2Model ----------------------------
(***************************************************************************)
(* Model of the rent-roll comparison tool.                                 *)
(*                                                                         *)
(*   - calculate_monthly_rent (src/utils.py 206-241), the Argus            *)
(*     normalizer nested in convert_argus_rent_roll: one step per          *)
(*     statement group, one loop iteration per unit.                       *)
(*   - run_analysis (src/main.py 20-39), the entry point that guards the   *)
(*     agent Runner with two file-existence checks.                        *)
(*                                                                         *)
(* Encoding.  A Python dict is a function whose DOMAIN is its key set, so  *)
(* a missing key is a key outside the DOMAIN.  An unbound local, a missing *)
(* return value and "no exception" are the empty sequence <<>>; a bound    *)
(* one is the one-element sequence <<v>>.  Money is in integer cents.  A   *)
(* date string "m/d/Y" is the tuple <<m, d, Y>> of its three numbers; it   *)
(* becomes a date only through strptime.                                   *)
(***************************************************************************)
EXTENDS Integers, Sequences, FiniteSets, TLC

VARIABLES
    extraction,     \* the RawExtraction as the chat step produced it (never written)
    raw_is_str,     \* isinstance(unit_data, str)
    unit_data,      \* the caller's object (utils.py 203), as it is now
    data,           \* local `data` after line 218: <<>> or <<dict>>
    analysis_date,  \* local `analysis_date`: <<>> or <<[year, month, day]>>
    months,         \* local `months`: <<>> while unbound, else <<n>>
    i,              \* units of data["units"] already processed by the loop
    pc,             \* position in calculate_monthly_rent
    err,            \* the exception that left the function: <<>> or <<[type, arg]>>
    final_data,     \* the value returned (utils.py 244): <<>> or <<dict>>
    fs,                     \* paths for which os.path.exists is true
    actual_rent_roll_path,  \* run_analysis argument
    argus_rent_roll_path,   \* run_analysis argument
    rpc,                    \* position in run_analysis
    run_result,             \* what run_analysis returned: <<>> or <<value>>
    runner_calls            \* number of Runner.run invocations

nvars == <<extraction, raw_is_str, unit_data, data, analysis_date, months, i,
           pc, err, final_data>>
rvars == <<fs, actual_rent_roll_path, argus_rent_roll_path, rpc, run_result,
           runner_calls>>
vars == <<extraction, raw_is_str, unit_data, data, analysis_date, months, i,
          pc, err, final_data, fs, actual_rent_roll_path,
          argus_rent_roll_path, rpc, run_result, runner_calls>>

---------------------------------------------------------------------------
(* Bounds of the model *)

MaxUnits == 2

---------------------------------------------------------------------------
(* Python dict primitives *)

\* d[k] = v on a dict
Put(d, k, v) == [x \in (DOMAIN d) \cup {k} |-> IF x = k THEN v ELSE d[x]]

\* d.pop(k, None): the key is removed when present, nothing happens otherwise
Pop(d, k) == [x \in (DOMAIN d) \ {k} |-> d[x]]

\* d.get(k, default)
Get(d, k, default) == IF k \in DOMAIN d THEN d[k] ELSE default

---------------------------------------------------------------------------
(* datetime.strptime(s, "%m/%d/%Y") *)

IsLeap(y) == (y % 4 = 0 /\ y % 100 # 0) \/ y % 400 = 0

DaysInMonth(m, y) ==
    IF m = 2 THEN (IF IsLeap(y) THEN 29 ELSE 28)
    ELSE IF m \in {4, 6, 9, 11} THEN 30 ELSE 31

\* strptime succeeds exactly on a real calendar date
Parses(s) ==
    /\ s[1] \in 1..12
    /\ s[3] \in 1..9999
    /\ s[2] \in 1..DaysInMonth(s[1], s[3])

strptime(s) == [year |-> s[3], month |-> s[1], day |-> s[2]]

---------------------------------------------------------------------------
(* The proration arithmetic, utils.py 228-238 *)

\* mutant: the month count without the inclusive "+ 1"
DivisorExclusive(ad, led) ==
    IF led.year = ad.year
    THEN (IF led.month - ad.month <= 0 THEN 1 ELSE led.month - ad.month)
    ELSE 12

\* mutant: months remaining counted across the year boundary
DivisorAcrossYears(ad, led) ==
    LET n == (led.year - ad.year) * 12 + (led.month - ad.month) + 1
    IN  IF n <= 0 THEN 1 ELSE n

\* mutant: every lease treated as a full annual figure
DivisorAnnual(ad, led) == 12

\* the number potential_rent is divided by
Divisor(ad, led) ==
    IF led.year = ad.year
    THEN (IF (led.month - ad.month) + 1 <= 0
          THEN 1
          ELSE (led.month - ad.month) + 1)
    ELSE 12

\* mutant: the quotient cut to whole cents instead of rounded
Round2Truncate(p, d) == {p \div d}

\* round(p / d, 2), in cents.  The quotient is a binary float: when the
\* exact quotient lies half way between two cent values, the float nearest
\* to it may lie on either side (or on the tie, then rounded half-even),
\* so both neighbours are possible results.
Round2(p, d) ==
    LET q == p \div d
        r == p % d
    IN  IF 2 * r < d THEN {q}
        ELSE IF 2 * r > d THEN {q + 1}
        ELSE {q, q + 1}

---------------------------------------------------------------------------
(* The RawExtraction inputs the chat step can hand to the normalizer *)

UnitFields == {"occupant_name", "unit_number", "square_feet",
               "lease_start_date", "lease_end_date", "potential_rent"}

UnitNumbers == <<"101", "102", "103", "104">>

\* potential_rent values, in cents: 1200.00 (the spec's example), 1000.01,
\* 0.05, 0.00, and 0.01 (half a cent when divided by 2)
Rents == {120000, 100001, 5, 1, 0}

Days == {30, 31}

AnalysisDates == {<<m, d, 2025>> : m \in 1..12, d \in Days}

LeaseEndDates == {<<m, d, y>> : m \in 1..12, d \in Days, y \in {2024, 2025, 2026}}

\* one unit as the RentRollUnits model declares it (utils.py 137-143),
\* without the field `missing` when that names one
MkUnit(k, led, pr, missing) ==
    Pop([occupant_name    |-> "tenant",
         unit_number      |-> UnitNumbers[k],
         square_feet      |-> 1000 * k,
         lease_start_date |-> <<1, 1, 2020>>,
         lease_end_date   |-> led,
         potential_rent   |-> pr], missing)

\* single-unit documents over the full range of dates and rents
ProrationDocs ==
    {[analysis_date |-> a, units |-> <<MkUnit(1, led, pr, "none")>>] :
        a \in AnalysisDates, led \in LeaseEndDates, pr \in Rents}

\* how one unit of a multi-unit document may look: a lease ending in the
\* analysis year, in the following January, or on no calendar date; and
\* at most one field left out by the extraction
UnitShapes ==
    [led : {<<12, 31, 2025>>, <<1, 31, 2026>>, <<2, 30, 2025>>},
     pr : {120000},
     missing : UnitFields \cup {"none"}]

UnitLists(n) ==
    {[k \in 1..n |-> MkUnit(k, c[k].led, c[k].pr, c[k].missing)] :
        c \in [1..n -> UnitShapes]}

\* documents of up to MaxUnits units, with analysis_date valid, malformed
\* or absent, and the units list possibly absent
RollDocs ==
    LET lists == UNION {UnitLists(n) : n \in 0..MaxUnits}
        full  == {[analysis_date |-> a, units |-> us] :
                     a \in {<<11, 30, 2025>>, <<11, 31, 2025>>}, us \in lists}
    IN  full \cup {Pop(x, "analysis_date") : x \in full}
             \cup {Pop(x, "units") : x \in full}

---------------------------------------------------------------------------
(* calculate_monthly_rent, utils.py 206-241 *)

KeyError(k) == <<[type |-> "KeyError", arg |-> k]>>

\* strptime's ValueError: the text does not match the format, or the day is
\* out of range for the month
ValueError == <<[type |-> "ValueError", arg |-> "not a %m/%d/%Y date"]>>

\* data.get("units", [])
UnitsOf(doc) == Get(doc, "units", <<>>)

\* mutant: monthly_rent added, potential_rent left in place
NormalizeUnitKeepPotential(unit, mr) == Put(unit, "monthly_rent", mr)

\* unit["monthly_rent"] = ...; unit.pop("potential_rent", None)
NormalizeUnit(unit, mr) == Pop(Put(unit, "monthly_rent", mr), "potential_rent")

\* mutant: the result written to the first unit instead of the current one
StoreUnitFirst(doc, k, u) == [doc EXCEPT !["units"][1] = u]

\* `unit` is a reference to element k of data["units"]: writing to it
\* changes that element of the list in place
StoreUnit(doc, k, u) == [doc EXCEPT !["units"][k] = u]

\* what the caller's object holds once `data` holds doc: the same dict
\* when a dict was passed, the untouched string when a string was passed
CallerSees(doc) == IF raw_is_str THEN unit_data ELSE doc

\* lines 217-218: json.loads builds a new dict from a string, a dict is
\* used as it is
LoadData ==
    /\ pc = "start"
    /\ data' = <<unit_data>>
    /\ pc' = "parse_date"
    /\ UNCHANGED <<extraction, raw_is_str, unit_data, analysis_date, months,
                   i, err, final_data>>

\* line 221
ParseAnalysisDate ==
    /\ pc = "parse_date"
    /\ IF "analysis_date" \notin DOMAIN data[1]
       THEN /\ err' = KeyError("analysis_date")
            /\ pc' = "raised"
            /\ UNCHANGED analysis_date
       ELSE IF ~Parses(data[1]["analysis_date"])
       THEN /\ err' = ValueError
            /\ pc' = "raised"
            /\ UNCHANGED analysis_date
       ELSE /\ analysis_date' = <<strptime(data[1]["analysis_date"])>>
            /\ pc' = "loop"
            /\ UNCHANGED err
    /\ UNCHANGED <<extraction, raw_is_str, unit_data, data, months, i,
                   final_data>>

\* lines 224-239, one iteration of the loop
ProcessUnit ==
    /\ pc = "loop"
    /\ i < Len(UnitsOf(data[1]))
    /\ LET unit == UnitsOf(data[1])[i + 1]
       IN  IF "lease_end_date" \notin DOMAIN unit
           THEN /\ err' = KeyError("lease_end_date")
                /\ pc' = "raised"
                /\ UNCHANGED <<unit_data, data, months, i>>
           ELSE IF ~Parses(unit["lease_end_date"])
           THEN /\ err' = ValueError
                /\ pc' = "raised"
                /\ UNCHANGED <<unit_data, data, months, i>>
           ELSE LET lease_end_date == strptime(unit["lease_end_date"])
                    potential_rent == Get(unit, "potential_rent", 0)
                    d == Divisor(analysis_date[1], lease_end_date)
                IN  /\ months' = IF lease_end_date.year = analysis_date[1].year
                                 THEN <<d>>
                                 ELSE months
                    /\ \E monthly_rent \in Round2(potential_rent, d) :
                          data' = <<StoreUnit(data[1], i + 1,
                                      NormalizeUnit(unit, monthly_rent))>>
                    /\ unit_data' = CallerSees(data'[1])
                    /\ i' = i + 1
                    /\ UNCHANGED <<pc, err>>
    /\ UNCHANGED <<extraction, raw_is_str, analysis_date, final_data>>

\* line 241, and the assignment of line 244
Return ==
    /\ pc = "loop"
    /\ i = Len(UnitsOf(data[1]))
    /\ final_data' = data
    /\ pc' = "returned"
    /\ UNCHANGED <<extraction, raw_is_str, unit_data, data, analysis_date,
                   months, i, err>>

\* run_analysis is not running
RunIdle ==
    /\ fs = {}
    /\ actual_rent_roll_path = "actual_rent_roll.pdf"
    /\ argus_rent_roll_path = "argus_rent_roll.pdf"
    /\ rpc = "idle"
    /\ run_result = <<>>
    /\ runner_calls = 0

Init ==
    /\ extraction \in ProrationDocs \cup RollDocs
    /\ raw_is_str \in BOOLEAN
    /\ unit_data = extraction
    /\ data = <<>>
    /\ analysis_date = <<>>
    /\ months = <<>>
    /\ i = 0
    /\ pc = "start"
    /\ err = <<>>
    /\ final_data = <<>>
    /\ RunIdle

Next ==
    \/ LoadData /\ UNCHANGED rvars
    \/ ParseAnalysisDate /\ UNCHANGED rvars
    \/ ProcessUnit /\ UNCHANGED rvars
    \/ Return /\ UNCHANGED rvars

Spec == Init /\ [][Next]_vars

---------------------------------------------------------------------------
(* run_analysis, main.py 20-39 *)

Paths == {"actual_rent_roll.pdf", "argus_rent_roll.pdf", "other.pdf"}

\* what the agent run may end with (output.final_output)
FinalOutputs == {"COMPLETE", "discrepancy table COMPLETE"}

\* mutant: the existence check always passes
PathExistsAlways(p) == TRUE

\* os.path.exists(p)
PathExists(p) == p \in fs

\* the f-strings of lines 22 and 24, as their literal part and the path
ActualNotFound(p) == <<"Error: Actual rent roll file not found at: ", p>>

ArgusNotFound(p) == <<"Error: Argus rent roll file not found at: ", p>>

\* lines 21-22
CheckActual ==
    /\ rpc = "check_actual"
    /\ IF ~PathExists(actual_rent_roll_path)
       THEN /\ run_result' = <<ActualNotFound(actual_rent_roll_path)>>
            /\ rpc' = "returned"
       ELSE /\ rpc' = "check_argus"
            /\ UNCHANGED run_result
    /\ UNCHANGED <<fs, actual_rent_roll_path, argus_rent_roll_path,
                   runner_calls>>

\* lines 23-24
CheckArgus ==
    /\ rpc = "check_argus"
    /\ IF ~PathExists(argus_rent_roll_path)
       THEN /\ run_result' = <<ArgusNotFound(argus_rent_roll_path)>>
            /\ rpc' = "returned"
       ELSE /\ rpc' = "call_runner"
            /\ UNCHANGED run_result
    /\ UNCHANGED <<fs, actual_rent_roll_path, argus_rent_roll_path,
                   runner_calls>>

\* lines 29-37: Runner.run is called and awaited
CallRunner ==
    /\ rpc = "call_runner"
    /\ runner_calls' = runner_calls + 1
    /\ rpc' = "awaiting"
    /\ UNCHANGED <<fs, actual_rent_roll_path, argus_rent_roll_path,
                   run_result>>

\* line 39: the awaited run ends and its final_output is returned
ReturnOutput ==
    /\ rpc = "awaiting"
    /\ \E out \in FinalOutputs : run_result' = <<<<out>>>>
    /\ rpc' = "returned"
    /\ UNCHANGED <<fs, actual_rent_roll_path, argus_rent_roll_path,
                   runner_calls>>

\* the awaited run raises; the exception leaves run_analysis
RunnerRaises ==
    /\ rpc = "awaiting"
    /\ rpc' = "raised"
    /\ UNCHANGED <<fs, actual_rent_roll_path, argus_rent_roll_path,
                   run_result, runner_calls>>

\* calculate_monthly_rent is not running
NormalizerIdle ==
    /\ extraction = [units |-> <<>>]
    /\ raw_is_str = TRUE
    /\ unit_data = extraction
    /\ data = <<>>
    /\ analysis_date = <<>>
    /\ months = <<>>
    /\ i = 0
    /\ pc = "idle"
    /\ err = <<>>
    /\ final_data = <<>>

InitRun ==
    /\ NormalizerIdle
    /\ fs \in SUBSET Paths
    /\ actual_rent_roll_path \in Paths
    /\ argus_rent_roll_path \in Paths
    /\ rpc = "check_actual"
    /\ run_result = <<>>
    /\ runner_calls = 0

NextRun ==
    \/ CheckActual /\ UNCHANGED nvars
    \/ CheckArgus /\ UNCHANGED nvars
    \/ CallRunner /\ UNCHANGED nvars
    \/ ReturnOutput /\ UNCHANGED nvars
    \/ RunnerRaises /\ UNCHANGED nvars

SpecRun == InitRun /\ [][NextRun]_vars

---------------------------------------------------------------------------
(* Vocabulary of the properties *)

Abs(x) == IF x < 0 THEN -x ELSE x

\* mr cents is within half a cent of the exact quotient p / d
WithinHalfCent(mr, p, d) == 2 * Abs(d * mr - p) <= d

\* unit k as it was extracted, and as `data` holds it now
SrcUnit(k) == extraction["units"][k]

OutUnit(k) == data[1]["units"][k]

\* the units the loop has completed (i counts them)
Processed == 1..i

SrcAnalysis == strptime(extraction["analysis_date"])

SrcLeaseEnd(k) == strptime(SrcUnit(k)["lease_end_date"])

SameYear(k) == SrcLeaseEnd(k).year = SrcAnalysis.year

\* extracted units that lack one of the six declared fields
Lacking ==
    {k \in 1..Len(UnitsOf(extraction)) : ~(UnitFields \subseteq DOMAIN SrcUnit(k))}

---------------------------------------------------------------------------
(* Properties *)

\* C1: for every processed unit whose lease ends in the analysis year, the
\* divisor is (lease_end_date.month - analysis_date.month) + 1, replaced by
\* 1 when that is <= 0; it lies in 1..12, it is what `months` holds after
\* the unit, and monthly_rent is potential_rent divided by it.
C1_SameYearDivisor ==
    \A k \in Processed :
        SameYear(k) =>
            LET n  == (SrcLeaseEnd(k).month - SrcAnalysis.month) + 1
                dv == IF n <= 0 THEN 1 ELSE n
            IN  /\ dv \in 1..12
                /\ (k = i => months = <<dv>>)
                /\ ("potential_rent" \in DOMAIN SrcUnit(k) =>
                       WithinHalfCent(OutUnit(k)["monthly_rent"],
                                      SrcUnit(k)["potential_rent"], dv))

\* C1 witness: a lease that ends in the analysis year before the analysis
\* month was divided by the clamped divisor 1.
C1_Witness ==
    /\ pc = "returned"
    /\ i = 1
    /\ SameYear(1)
    /\ SrcLeaseEnd(1).month < SrcAnalysis.month
    /\ months = <<1>>
    /\ SrcUnit(1)["potential_rent"] = 120000
    /\ OutUnit(1)["monthly_rent"] = 120000

\* C2: for every processed unit whose lease ends in another year than the
\* analysis date, earlier or later, monthly_rent is potential_rent divided
\* by 12, whatever the two months are.
C2_OtherYearDivisor ==
    \A k \in Processed :
        (~SameYear(k) /\ "potential_rent" \in DOMAIN SrcUnit(k)) =>
            WithinHalfCent(OutUnit(k)["monthly_rent"],
                           SrcUnit(k)["potential_rent"], 12)

\* C2 witness: a lease ending in January of the year after a December
\* analysis date was divided by 12.
C2_Witness ==
    /\ pc = "returned"
    /\ i = 1
    /\ extraction["analysis_date"] = <<12, 31, 2025>>
    /\ SrcUnit(1)["lease_end_date"] = <<1, 31, 2026>>
    /\ SrcUnit(1)["potential_rent"] = 120000
    /\ OutUnit(1)["monthly_rent"] = 10000

\* C3: when a unit of the extraction lacks one of the six fields, the
\* normalization does not return: no unit list is produced and no default
\* stands in for the field.
C3_MissingFieldFails ==
    Lacking # {} => (pc # "returned" /\ final_data = <<>>)

\* C4: when the normalization raises, nothing is returned and the object
\* the caller passed is as it was extracted.
C4_AllOrNothing ==
    pc = "raised" => (final_data = <<>> /\ unit_data = extraction)

\* C5: a returned document has as many units as the extraction, and the
\* unit at each position carries the unit_number of the extracted unit at
\* that position.
C5_LengthAndOrder ==
    pc = "returned" =>
        /\ Len(UnitsOf(final_data[1])) = Len(UnitsOf(extraction))
        /\ \A k \in 1..Len(UnitsOf(extraction)) :
              "unit_number" \in DOMAIN SrcUnit(k) =>
                  /\ "unit_number" \in DOMAIN final_data[1]["units"][k]
                  /\ final_data[1]["units"][k]["unit_number"]
                        = SrcUnit(k)["unit_number"]

\* C5 witness: a document of two units with different unit numbers was
\* returned.
C5_Witness ==
    /\ pc = "returned"
    /\ Len(UnitsOf(final_data[1])) = 2
    /\ final_data[1]["units"][1]["unit_number"] = "101"
    /\ final_data[1]["units"][2]["unit_number"] = "102"

\* C6: in a returned document every unit has monthly_rent and no
\* potential_rent, and its occupant_name, unit_number, square_feet,
\* lease_start_date and lease_end_date are those of the extraction.
C6_FieldsAfterSuccess ==
    pc = "returned" =>
        \A k \in 1..Len(UnitsOf(extraction)) :
            LET out == final_data[1]["units"][k]
            IN  /\ "monthly_rent" \in DOMAIN out
                /\ "potential_rent" \notin DOMAIN out
                /\ \A f \in UnitFields \ {"potential_rent"} :
                      /\ f \in DOMAIN out <=> f \in DOMAIN SrcUnit(k)
                      /\ f \in DOMAIN out => out[f] = SrcUnit(k)[f]

\* C6 witness: a returned unit that was extracted with potential_rent.
C6_Witness ==
    /\ pc = "returned"
    /\ Len(UnitsOf(extraction)) = 2
    /\ "potential_rent" \in DOMAIN SrcUnit(2)
    /\ "potential_rent" \notin DOMAIN final_data[1]["units"][2]
    /\ "monthly_rent" \in DOMAIN final_data[1]["units"][2]

\* C8: the monthly_rent stored for a processed unit is a whole number of
\* cents within half a cent of potential_rent / divisor.
C8_RoundedToCents ==
    \A k \in Processed :
        "potential_rent" \in DOMAIN SrcUnit(k) =>
            /\ OutUnit(k)["monthly_rent"] \in Int
            /\ WithinHalfCent(OutUnit(k)["monthly_rent"],
                              SrcUnit(k)["potential_rent"],
                              Divisor(SrcAnalysis, SrcLeaseEnd(k)))

\* C8 witness: 1200.00 over 7 months is 171.428..., stored rounded up as
\* 171.43.
C8_Witness ==
    /\ pc = "returned"
    /\ i = 1
    /\ months = <<7>>
    /\ SrcUnit(1)["potential_rent"] = 120000
    /\ OutUnit(1)["monthly_rent"] = 17143

\* the document of prorate(1200, 2025-03-31, 2025-12-31) has been returned
C9_Case ==
    /\ pc = "returned"
    /\ extraction = [analysis_date |-> <<3, 31, 2025>>,
                     units |-> <<MkUnit(1, <<12, 31, 2025>>, 120000, "none")>>]

\* C9 as amended: prorate(1200, 2025-03-31, 2025-12-31) is 120.00.
C9_Returns120 ==
    C9_Case => final_data[1]["units"][1]["monthly_rent"] = 12000

\* C9 witness: that case returned 120.00.
C9_Witness ==
    C9_Case /\ final_data[1]["units"][1]["monthly_rent"] = 12000

\* C9 as stated: prorate(1200, 2025-03-31, 2025-12-31) is 100.00.
C9_Returns100 ==
    C9_Case => final_data[1]["units"][1]["monthly_rent"] = 10000

\* C10: Runner.run is called only when both paths exist; a missing actual
\* path returns the "Actual ... not found" string even when the Argus path
\* is missing too, a missing Argus path alone returns the "Argus ... not
\* found" string, and in both cases Runner.run was never called.
C10_RunnerGuarded ==
    /\ runner_calls > 0 =>
          (actual_rent_roll_path \in fs /\ argus_rent_roll_path \in fs)
    /\ (rpc \in {"returned", "raised"} /\ actual_rent_roll_path \notin fs) =>
          /\ rpc = "returned"
          /\ run_result = <<ActualNotFound(actual_rent_roll_path)>>
          /\ runner_calls = 0
    /\ (rpc \in {"returned", "raised"} /\ actual_rent_roll_path \in fs
          /\ argus_rent_roll_path \notin fs) =>
          /\ rpc = "returned"
          /\ run_result = <<ArgusNotFound(argus_rent_roll_path)>>
          /\ runner_calls = 0

\* C10 witness: both paths are missing and the actual-path error was
\* returned without a Runner call.
C10_Witness ==
    /\ rpc = "returned"
    /\ actual_rent_roll_path \notin fs
    /\ argus_rent_roll_path \notin fs
    /\ actual_rent_roll_path # argus_rent_roll_path
    /\ run_result = <<ActualNotFound(actual_rent_roll_path)>>
    /\ runner_calls = 0

=============================================================================
